---------------------------- MODULE Spec2Model ----------------------------
(***************************************************************************)
(* Model of src/main.rs: the content index (State::load), the hot reload   *)
(* loop of main, and the request router serve, with the RwLock<State> they *)
(* share.                                                                  *)
(*                                                                         *)
(* Strings are sequences of one-character strings, so that starts_with,    *)
(* extension, components and the byte order of String::cmp are computed as *)
(* the code computes them.  "xFF" stands for a byte that is not valid      *)
(* UTF-8 (OsStr::to_str returns None on it).                               *)
(***************************************************************************)
EXTENDS Integers, Sequences, FiniteSets, TLC

\* ------------------------------------------------------------------------
\* Strings and paths
\* ------------------------------------------------------------------------

\* The characters the model uses, in byte order.
Alphabet == <<"-", ".", "/", "a", "b", "c", "d", "e", "f", "g", "h", "i", "j",
              "k", "l", "m", "n", "o", "p", "q", "r", "s", "t", "u", "v", "w",
              "x", "y", "z", "xFF">>

Ord(c) == CHOOSE i \in 1..Len(Alphabet) : Alphabet[i] = c

\* String::cmp / str::cmp: bytewise lexicographic order (used by Vec::sort).
StrLess(s, t) ==
    \E k \in 1..Len(t) :
        /\ \A j \in 1..(k - 1) : j <= Len(s) /\ s[j] = t[j]
        /\ (k > Len(s) \/ Ord(s[k]) < Ord(t[k]))

\* OsStr::to_str: None (FALSE here) when the bytes are not valid UTF-8.
IsUtf8(s) == \A i \in 1..Len(s) : s[i] # "xFF"

\* <[u8]>::starts_with(b".")
StartsWithDot(s) == Len(s) >= 1 /\ s[1] = "."

\* str::starts_with
StartsWith(s, prefix) ==
    /\ Len(prefix) <= Len(s)
    /\ \A i \in 1..Len(prefix) : s[i] = prefix[i]

\* str::ends_with
EndsWith(s, suffix) ==
    /\ Len(suffix) <= Len(s)
    /\ \A i \in 1..Len(suffix) : s[Len(s) - Len(suffix) + i] = suffix[i]

RECURSIVE SplitSlash(_, _, _)
\* The non-empty pieces of s between '/' characters, in order.
SplitSlash(s, cur, acc) ==
    IF s = <<>> THEN (IF cur = <<>> THEN acc ELSE Append(acc, cur))
    ELSE IF Head(s) = "/"
         THEN SplitSlash(Tail(s), <<>>, IF cur = <<>> THEN acc ELSE Append(acc, cur))
         ELSE SplitSlash(Tail(s), Append(cur, Head(s)), acc)

\* Path::components of a path given as text: empty pieces and "." pieces
\* are dropped (a leading "." aside, which no path of the model has).
Components(s) == SelectSeq(SplitSlash(s, <<>>, <<>>), LAMBDA c : c # <<".">>)

RECURSIVE JoinSlash(_)
\* Path::to_str of a relative path: its components joined by '/'.
JoinSlash(comps) ==
    IF comps = <<>> THEN <<>>
    ELSE IF Len(comps) = 1 THEN comps[1]
    ELSE comps[1] \o <<"/">> \o JoinSlash(Tail(comps))

\* Path::file_name: the last component, none (<<>>) for an empty path or one
\* that ends in "..".
FileName(comps) ==
    IF comps = <<>> \/ comps[Len(comps)] = <<".", ".">> THEN <<>>
    ELSE comps[Len(comps)]

\* Positions of '.' in a name after its first character.
DotsAfterFirst(name) == {i \in 2..Len(name) : name[i] = "."}

\* Path::extension: the part of the file name after its last '.', none
\* (<<>>) when there is no file name, no '.', or only a leading '.'.
Extension(comps) ==
    LET name == FileName(comps)
        dots == DotsAfterFirst(name)
    IN  IF name = <<>> \/ dots = {} THEN <<>>
        ELSE LET last == CHOOSE i \in dots : \A j \in dots : j <= i
             IN  SubSeq(name, last + 1, Len(name))

\* Path::starts_with: a component-wise prefix.
PathStartsWith(comps, base) ==
    /\ Len(base) <= Len(comps)
    /\ \A i \in 1..Len(base) : comps[i] = base[i]

\* is the extension "md" or "markdown" (and valid text)?
MD == <<"m", "d">>
MARKDOWN == <<"m", "a", "r", "k", "d", "o", "w", "n">>
IsMarkdownExt(ext) == ext = MD \/ ext = MARKDOWN

RECURSIVE InsertStr(_, _)
\* Insert x before the first element greater than it (after its equals).
InsertStr(sorted, x) ==
    IF sorted = <<>> THEN <<x>>
    ELSE IF StrLess(x, Head(sorted)) THEN <<x>> \o sorted
    ELSE <<Head(sorted)>> \o InsertStr(Tail(sorted), x)

RECURSIVE SortStrings(_)
\* Vec<String>::sort: ascending, stable.
SortStrings(seq) ==
    IF seq = <<>> THEN <<>>
    ELSE InsertStr(SortStrings(SubSeq(seq, 1, Len(seq) - 1)), seq[Len(seq)])

\* ------------------------------------------------------------------------
\* Rendering: markdown_to_document
\* ------------------------------------------------------------------------

\* A document is the event stream pulldown_cmark's Parser yields for it.  An
\* event is [t, lang, text]: t is "StartFenced" (a fenced code block with
\* info string lang), "Text", "EndCodeBlock", "Html" or "Other"; text is a
\* sequence of text pieces.  A text piece is [toml, title, date, s]: toml
\* says whether it is TOML syntax, title and date are the values of those
\* keys ("" and 0 when the key is missing), s names any other text.
Piece(toml, title, date, s) ==
    [toml |-> toml, title |-> title, date |-> date, s |-> s]
Ev(t, lang, text) == [t |-> t, lang |-> lang, text |-> text]

META == <<"m", "e", "t", "a">>

\* Option<Meta>: lang and desc are optional keys no decision reads; they are
\* left out.
NoMeta == [some |-> FALSE, title |-> "", date |-> 0]
SomeMeta(title, date) == [some |-> TRUE, title |-> title, date |-> date]

DefaultDate == 20240101
\* Meta::default
DefaultMeta == SomeMeta("UNTITLED!", DefaultDate)

\* Mutant of TomlMeta: a missing title or date is let through.
TomlMetaLenient(piece) ==
    IF piece.toml THEN SomeMeta(piece.title, piece.date) ELSE NoMeta

\* toml::de::from_str::<Meta>: title and date are required fields.
TomlMeta(piece) ==
    IF piece.toml /\ piece.title # "" /\ piece.date # 0
    THEN SomeMeta(piece.title, piece.date)
    ELSE NoMeta

\* Mutant of RenderStep: the accumulator is not cleared at the end of a
\* highlighted block.
RenderStepNoClear(acc, e) ==
    IF e.t = "StartFenced"
    THEN IF e.lang = META
         THEN [acc EXCEPT !.st = "Meta"]
         ELSE [acc EXCEPT !.st = "Highlight", !.lang = e.lang]
    ELSE IF e.t = "Text"
    THEN IF acc.st = "Normal" THEN [acc EXCEPT !.out = Append(@, e)]
         ELSE IF acc.st = "Meta"
         THEN IF TomlMeta(e.text[1]).some
              THEN [acc EXCEPT !.meta = TomlMeta(e.text[1])]
              ELSE acc
         ELSE [acc EXCEPT !.code = @ \o e.text]
    ELSE IF e.t = "EndCodeBlock"
    THEN IF acc.st = "Normal" THEN [acc EXCEPT !.out = Append(@, e)]
         ELSE IF acc.st = "Meta" THEN [acc EXCEPT !.st = "Normal"]
         ELSE [acc EXCEPT !.out = Append(@, Ev("Html", acc.lang, acc.code)),
                          !.st = "Normal"]
    ELSE [acc EXCEPT !.out = Append(@, e)]

\* The filter_map closure of markdown_to_document applied to one event: the
\* parse state after it (st, code, meta, lang) and the events it lets
\* through (appended to out).
RenderStep(acc, e) ==
    IF e.t = "StartFenced"
    THEN IF e.lang = META
         THEN [acc EXCEPT !.st = "Meta"]
         ELSE [acc EXCEPT !.st = "Highlight", !.lang = e.lang]
    ELSE IF e.t = "Text"
    THEN IF acc.st = "Normal" THEN [acc EXCEPT !.out = Append(@, e)]
         ELSE IF acc.st = "Meta"
         THEN IF TomlMeta(e.text[1]).some
              THEN [acc EXCEPT !.meta = TomlMeta(e.text[1])]
              ELSE acc
         ELSE [acc EXCEPT !.code = @ \o e.text]
    ELSE IF e.t = "EndCodeBlock"
    THEN IF acc.st = "Normal" THEN [acc EXCEPT !.out = Append(@, e)]
         ELSE IF acc.st = "Meta" THEN [acc EXCEPT !.st = "Normal"]
         ELSE [acc EXCEPT !.out = Append(@, Ev("Html", acc.lang, acc.code)),
                          !.code = <<>>,
                          !.st = "Normal"]
    ELSE [acc EXCEPT !.out = Append(@, e)]

RECURSIVE RenderFold(_, _)
RenderFold(acc, events) ==
    IF events = <<>> THEN acc
    ELSE RenderFold(RenderStep(acc, Head(events)), Tail(events))

RenderInit ==
    [st |-> "Normal", code |-> <<>>, meta |-> NoMeta, lang |-> <<>>, out |-> <<>>]

\* markdown_to_document(header_sections, contents) = (html, meta): html is
\* the document template filled with the sections, the metadata (or the
\* default) and the converted body.
markdown_to_document(header_sections, contents) ==
    LET r == RenderFold(RenderInit, contents)
    IN  [html |-> [sects |-> header_sections,
                   meta  |-> IF r.meta.some THEN r.meta ELSE DefaultMeta,
                   body  |-> r.out],
         meta |-> r.meta]


\* ------------------------------------------------------------------------
\* The content tree and State::load
\* ------------------------------------------------------------------------

\* A content tree is a function from relative file paths (text) to what is
\* there: nothing, bytes that are not valid UTF-8, or a text document given
\* by its event stream.  A directory exists when a file lies under it.
Absent == [kind |-> "absent", utf8 |-> TRUE, doc |-> <<>>]
RawBytes == [kind |-> "file", utf8 |-> FALSE, doc |-> <<>>]
TextFile(events) == [kind |-> "file", utf8 |-> TRUE, doc |-> events]

Present(tree) == {f \in DOMAIN tree : tree[f].kind = "file"}

\* Path::is_file of the root-relative path comps.
IsFile(tree, comps) == \E f \in Present(tree) : Components(f) = comps

\* Path::is_dir of the root-relative path comps.
IsDir(tree, comps) ==
    \E f \in Present(tree) :
        /\ PathStartsWith(Components(f), comps)
        /\ Len(Components(f)) > Len(comps)

\* The names std::fs::read_dir yields for directory dir.
Children(tree, dir) ==
    {Components(f)[Len(dir) + 1] :
        f \in {g \in Present(tree) :
                 /\ PathStartsWith(Components(g), dir)
                 /\ Len(Components(g)) > Len(dir)}}

RECURSIVE Ascending(_)
\* The names of a set in ascending order.
Ascending(names) ==
    IF names = {} THEN <<>>
    ELSE LET m == CHOOSE x \in names : \A y \in names : y = x \/ StrLess(x, y)
         IN  <<m>> \o Ascending(names \ {m})

Reverse(seq) == [i \in 1..Len(seq) |-> seq[Len(seq) + 1 - i]]

\* read_dir promises no order: it is the file system's.  The model has file
\* systems that list the names of every directory ascending ("asc") and
\* ones that list them descending ("desc").
Orders == {"asc", "desc"}
ReadDir(tree, dir, order) ==
    IF order = "asc" THEN Ascending(Children(tree, dir))
    ELSE Reverse(Ascending(Children(tree, dir)))

RECURSIVE WalkEntriesHidden(_, _, _, _)
\* Mutant of WalkEntries: directories whose name starts with '.' are entered
\* like the others.
WalkEntriesHidden(tree, dir, names, order) ==
    IF names = <<>> THEN <<>>
    ELSE LET path == Append(dir, Head(names))
             rest == WalkEntriesHidden(tree, dir, Tail(names), order)
         IN  IF IsDir(tree, path)
             THEN WalkEntriesHidden(tree, path, ReadDir(tree, path, order), order)
                  \o rest
             ELSE <<path>> \o rest

RECURSIVE WalkEntries(_, _, _, _)
\* walk: the files handed to the callback, in order.  A directory is handed
\* to the callback first, which answers false for a name that starts with
\* '.' (the directory is then not entered) and true otherwise.
WalkEntries(tree, dir, names, order) ==
    IF names = <<>> THEN <<>>
    ELSE LET path == Append(dir, Head(names))
             rest == WalkEntries(tree, dir, Tail(names), order)
         IN  IF IsDir(tree, path)
             THEN IF StartsWithDot(Head(names)) THEN rest
                  ELSE WalkEntries(tree, path, ReadDir(tree, path, order), order)
                       \o rest
             ELSE <<path>> \o rest

walk(tree, order) == WalkEntries(tree, <<>>, ReadDir(tree, <<>>, order), order)

SECTION_TOML == <<".", "s", "e", "c", "t", "i", "o", "n", ".", "t", "o", "m", "l">>

FileAt(tree, comps) == tree[CHOOSE f \in Present(tree) : Components(f) = comps]

IndexEntry(meta, section, path) ==
    [meta |-> meta, section |-> section, path |-> path]

\* What a scan has built so far: kind is "ok", "err" (the callback returned
\* an error) or "panic" (an unwrap failed).
ScanOk(sections, index) == [kind |-> "ok", sections |-> sections, index |-> index]
ScanErr == [kind |-> "err", sections |-> <<>>, index |-> <<>>]
ScanPanic == [kind |-> "panic", sections |-> <<>>, index |-> <<>>]

\* The second half of the callback, for a file whose name does not start
\* with '.': a Markdown file that yields metadata gets an IndexEntry.
IndexFile(tree, acc, rel) ==
    IF ~(IsUtf8(Extension(rel)) /\ IsMarkdownExt(Extension(rel))) THEN acc
    ELSE IF ~FileAt(tree, rel).utf8 THEN ScanErr
    ELSE LET r == markdown_to_document(acc.sections, FileAt(tree, rel).doc)
         IN  IF ~r.meta.some THEN acc
             ELSE IF \E i \in 1..Len(rel) : ~IsUtf8(rel[i]) THEN ScanPanic
             ELSE LET path == JoinSlash(rel)
                      section == IF rel[1] = path THEN <<>> ELSE rel[1]
                  IN  ScanOk(acc.sections,
                             Append(acc.index, IndexEntry(r.meta, section, path)))

\* The callback State::load gives to walk, for the file rel (relative to
\* the content root).
Callback(tree, acc, rel) ==
    IF acc.kind # "ok" THEN acc
    ELSE IF FileName(rel) = SECTION_TOML
         THEN IF ~IsUtf8(rel[1]) THEN ScanPanic
              ELSE ScanOk(Append(acc.sections, rel[1]), acc.index)
         ELSE IF StartsWithDot(FileName(rel)) THEN acc
              ELSE IndexFile(tree, acc, rel)

RECURSIVE WalkFold(_, _, _)
WalkFold(tree, acc, files) ==
    IF files = <<>> THEN acc
    ELSE WalkFold(tree, Callback(tree, acc, Head(files)), Tail(files))

\* ------------------------------------------------------------------------
\* The ignore filter
\* ------------------------------------------------------------------------

\* The environment of the ignore tool: git is "absent" (not on PATH), "repo"
\* (the content root is in a repository) or "norepo"; rules are the ignored
\* paths, a rule covering everything under it.

IsIgnored(rules, p) ==
    \E r \in rules : PathStartsWith(Components(p), Components(r))

NotARepository == 128

\* git check-ignore -- paths: the exit code and the lines of stdout.  0: at
\* least one path is ignored; 1: none is; 128: a fatal error.
GitCheckIgnore(git, rules, paths) ==
    LET hit == SelectSeq(paths, LAMBDA p : IsIgnored(rules, p))
    IN  IF git = "norepo" THEN [code |-> NotARepository, stdout |-> <<>>]
        ELSE [code |-> IF hit = <<>> THEN 1 ELSE 0, stdout |-> hit]

\* Mutant of filter_ignored: every exit code but 0 is an error.
filter_ignoredStrict(git, rules, paths) ==
    LET output == GitCheckIgnore(git, rules, paths)
    IN  IF output.code # 0
        THEN [ok |-> FALSE, paths |-> <<>>]
        ELSE [ok |-> TRUE, paths |-> output.stdout]

\* filter_ignored: an error for exit code 128, the lines of stdout otherwise.
filter_ignored(git, rules, paths) ==
    LET output == GitCheckIgnore(git, rules, paths)
    IN  IF output.code = NotARepository
        THEN [ok |-> FALSE, paths |-> <<>>]
        ELSE [ok |-> TRUE, paths |-> output.stdout]

\* retain(|x| !ignored.iter().any(|p| p == Path::new(x)))
NotIn(ignored, p) ==
    ~\E i \in 1..Len(ignored) : Components(ignored[i]) = Components(p)


RECURSIVE InsertEntryBeforeEquals(_, _)
\* Mutant of InsertEntry: an unstable sort, entries of equal date change
\* places.
InsertEntryBeforeEquals(sorted, x) ==
    IF sorted = <<>> THEN <<x>>
    ELSE IF Head(sorted).meta.date <= x.meta.date THEN <<x>> \o sorted
    ELSE <<Head(sorted)>> \o InsertEntryBeforeEquals(Tail(sorted), x)

RECURSIVE InsertEntry(_, _)
\* Insert x before the first entry with an earlier date (after its equals).
InsertEntry(sorted, x) ==
    IF sorted = <<>> THEN <<x>>
    ELSE IF Head(sorted).meta.date < x.meta.date THEN <<x>> \o sorted
    ELSE <<Head(sorted)>> \o InsertEntry(Tail(sorted), x)

RECURSIVE SortIndex(_)
\* index.sort_by(|r, l| l.meta.date.cmp(&r.meta.date)): date descending,
\* stable.
SortIndex(seq) ==
    IF seq = <<>> THEN <<>>
    ELSE InsertEntry(SortIndex(SubSeq(seq, 1, Len(seq) - 1)), seq[Len(seq)])

IndexPaths(index) == [i \in 1..Len(index) |-> index[i].path]

\* sections.retain(|s| index.iter().any(|i| i.section == *s))
RetainIndexed(sections, index) ==
    SelectSeq(sections, LAMBDA s : \E i \in 1..Len(index) : index[i].section = s)

\* Mutant of Finish: the root section is not added.
FinishNoRoot(sections, index) == ScanOk(SortStrings(sections), SortIndex(index))

\* The last lines of State::load: the root section is added, both lists are
\* sorted.
Finish(sections, index) ==
    ScanOk(SortStrings(Append(sections, <<>>)), SortIndex(index))

\* Mutant of FilterAndFinish: the documents are not put through the filter.
FilterSectionsOnly(git, rules, sections, index) ==
    LET si == IF sections = <<>> THEN [ok |-> TRUE, paths |-> <<>>]
              ELSE filter_ignored(git, rules, sections)
    IN  IF ~si.ok THEN ScanErr
        ELSE Finish(SelectSeq(sections, LAMBDA x : NotIn(si.paths, x)), index)

\* The ignore filter part of State::load, run when git was found.
FilterAndFinish(git, rules, sections, index) ==
    LET si == IF sections = <<>> THEN [ok |-> TRUE, paths |-> <<>>]
              ELSE filter_ignored(git, rules, sections)
        ii == IF index = <<>> THEN [ok |-> TRUE, paths |-> <<>>]
              ELSE filter_ignored(git, rules, IndexPaths(index))
    IN  IF ~si.ok \/ ~ii.ok THEN ScanErr
        ELSE Finish(SelectSeq(sections, LAMBDA x : NotIn(si.paths, x)),
                    SelectSeq(index, LAMBDA x : NotIn(ii.paths, x.path)))

\* State::load(content_path): the tree is walked in the given read_dir
\* order, with the ignore tool as the environment has it.
Load(tree, order, git, rules) ==
    LET w == WalkFold(tree, ScanOk(<<>>, <<>>), walk(tree, order))
    IN  IF w.kind # "ok" THEN w
        ELSE LET sections == RetainIndexed(w.sections, w.index)
             IN  IF git = "absent" THEN Finish(sections, w.index)
                 ELSE FilterAndFinish(git, rules, sections, w.index)

\* The lists State::load has when the walk is done and the sections without
\* entries are dropped (line 174): what the ignore filter is given.
Walked(tree, order) ==
    LET w == WalkFold(tree, ScanOk(<<>>, <<>>), walk(tree, order))
    IN  [kind |-> w.kind,
         sections |-> RetainIndexed(w.sections, w.index),
         paths |-> IndexPaths(w.index)]

\* How often State::load runs filter_ignored: not at all without git, once
\* for the sections unless there are none, once for the index paths unless
\* there are none or the first run returned an error.
FilterCalls(tree, order, git, rules) ==
    LET w == Walked(tree, order)
        first == w.sections # <<>>
        second == /\ w.paths # <<>>
                  /\ first => filter_ignored(git, rules, w.sections).ok
    IN  IF w.kind # "ok" \/ git = "absent" THEN 0
        ELSE (IF first THEN 1 ELSE 0) + (IF second THEN 1 ELSE 0)

\* struct State
StateOf(r) == [sections |-> r.sections, index |-> r.index]


\* ------------------------------------------------------------------------
\* The worlds the server model runs in
\* ------------------------------------------------------------------------

SL == <<"/">>
DirA == <<"a">>
XMd == <<"x", ".", "m", "d">>
FileAX == DirA \o SL \o XMd
FileAMarker == DirA \o SL \o SECTION_TOML
BadDir == <<"xFF">>
FileBadMarker == BadDir \o SL \o SECTION_TOML

Body == Ev("Text", <<>>, <<Piece(FALSE, "", 0, "body")>>)
\* A document that opens with a well-formed meta block.
DocMeta(title, date) ==
    TextFile(<<Ev("StartFenced", META, <<>>),
               Ev("Text", <<>>, <<Piece(TRUE, title, date, "")>>),
               Ev("EndCodeBlock", <<>>, <<>>),
               Body>>)
\* A document without a meta block.
DocNoMeta == TextFile(<<Body>>)
\* A document whose meta block is TOML without the required date.
DocBadMeta ==
    TextFile(<<Ev("StartFenced", META, <<>>),
               Ev("Text", <<>>, <<Piece(TRUE, "T", 0, "")>>),
               Ev("EndCodeBlock", <<>>, <<>>),
               Body>>)
\* A document with two meta blocks: one that is no TOML, then a well-formed
\* one.
DocBadGoodMeta ==
    TextFile(<<Ev("StartFenced", META, <<>>),
               Ev("Text", <<>>, <<Piece(FALSE, "", 0, "garbage")>>),
               Ev("EndCodeBlock", <<>>, <<>>),
               Ev("StartFenced", META, <<>>),
               Ev("Text", <<>>, <<Piece(TRUE, "T", 20240501, "")>>),
               Ev("EndCodeBlock", <<>>, <<>>),
               Body>>)
\* A document with two meta blocks: a well-formed one, then one that is no
\* TOML.
DocGoodBadMeta ==
    TextFile(<<Ev("StartFenced", META, <<>>),
               Ev("Text", <<>>, <<Piece(TRUE, "T", 20240501, "")>>),
               Ev("EndCodeBlock", <<>>, <<>>),
               Ev("StartFenced", META, <<>>),
               Ev("Text", <<>>, <<Piece(FALSE, "", 0, "garbage")>>),
               Ev("EndCodeBlock", <<>>, <<>>),
               Body>>)
\* A file that is not a document (a section marker).
Marker == TextFile(<<>>)

World(tree, g, r) == [fs |-> tree, git |-> g, rules |-> r]

HDir == <<".", "h">>
ZMd == <<"z", ".", "m", "d">>
FileHZ == HDir \o SL \o ZMd

\* What every content root of the server model holds: a document with
\* metadata in the hidden directory .h and a section marker file directly in
\* the root.
HiddenContent == (FileHZ :> DocMeta("H", 20240501)) @@ (SECTION_TOML :> Marker)

\* The content root as the server may find it: a section a with its marker
\* file and the document a/x.md, which is there with metadata, there
\* without a meta block, there as bytes that are no text, or deleted; and
\* once more with a section directory whose name is no text.  The ignore
\* tool is not installed.
Worlds ==
    { World((FileAMarker :> Marker) @@ (FileAX :> ax) @@ (FileBadMarker :> Absent)
                @@ HiddenContent,
            "absent", {}) :
        ax \in {DocMeta("T", 20240501), DocNoMeta, RawBytes, Absent} }
    \cup { World((FileAMarker :> Marker) @@ (FileAX :> DocMeta("T", 20240501))
                    @@ (FileBadMarker :> Marker) @@ HiddenContent,
                "absent", {}) }

IndexHtml == <<"i", "n", "d", "e", "x", ".", "h", "t", "m", "l">>
StaticAssets == <<".", "s", "t", "a", "t", "i", "c", "-", "a", "s", "s", "e", "t", "s">>
Styles == <<".", "s", "t", "y", "l", "e", "s">>
StylesCss == <<"s", "t", "y", "l", "e", "s", ".", "c", "s", "s">>

RECURSIVE SplitAll(_, _, _)
\* The segments of a URL path: the pieces between '/' characters, empty
\* ones kept.
SplitAll(s, cur, acc) ==
    IF s = <<>> THEN Append(acc, cur)
    ELSE IF Head(s) = "/" THEN SplitAll(Tail(s), <<>>, Append(acc, cur))
    ELSE SplitAll(Tail(s), Append(cur, Head(s)), acc)

RECURSIVE DotFold(_, _)
\* Url::parse on the segments of a path: "." is dropped, ".." drops the
\* segment before it as well; either one at the end leaves an empty last
\* segment.
DotFold(segs, acc) ==
    IF segs = <<>> THEN acc
    ELSE LET h == Head(segs)
             last == Tail(segs) = <<>>
             up == IF acc = <<>> THEN acc ELSE SubSeq(acc, 1, Len(acc) - 1)
         IN  IF h = <<".", ".">>
             THEN DotFold(Tail(segs), IF last THEN Append(up, <<>>) ELSE up)
             ELSE IF h = <<".">>
             THEN DotFold(Tail(segs), IF last THEN Append(acc, <<>>) ELSE acc)
             ELSE DotFold(Tail(segs), Append(acc, h))

\* url.path() of Url::parse("http://{host}{target}"): the dot segments of the
\* request target are resolved, nothing else is changed.
UrlPath(target) ==
    SL \o JoinSlash(DotFold(SplitAll(Tail(target), <<>>, <<>>), <<>>))

\* A file outside the content root: a document /o/x.md.
OutsidePath == << <<"o">>, XMd >>
OutsideFile == TextFile(<<Ev("Text", <<>>, <<Piece(FALSE, "", 0, "secret")>>)>>)

\* The request targets (rq.url()) the clients of the model send: the root,
\* index pages, a style sheet, the document a/x.md (also by way of dot
\* segments), the marker file of a, the hidden document, and the absolute
\* path of the outside file behind a second '/'.
ReqTargets ==
    { SL,
      SL \o IndexHtml,
      SL \o DirA \o SL \o IndexHtml,
      SL \o Styles \o SL \o StylesCss,
      SL \o FileAX,
      SL \o DirA \o SL \o <<".", ".">> \o SL \o <<".", ".">> \o SL \o FileAX,
      SL \o FileAMarker,
      SL \o FileHZ,
      SL \o SL \o JoinSlash(OutsidePath) }

\* The values of url.path() the workers see.
ReqPaths == {UrlPath(t) : t \in ReqTargets}

\* ------------------------------------------------------------------------
\* The server: state, lock, reload loop and workers
\* ------------------------------------------------------------------------

NumWorkers == 1
Workers == 1..NumWorkers

VARIABLES
    fs,        \* the content tree on disk
    git,       \* the ignore tool: "absent", "repo" or "norepo"
    rules,     \* the ignore rules in force
    order,     \* the order in which the file system lists its directories
    state,     \* the State inside the RwLock
    flag,      \* reload_state, the AtomicBool SIGHUP sets
    mainpc,    \* where the reload loop of main is
    log,       \* what the reload loop logged last
    writer,    \* the write guard is held
    readers,   \* the read guards each worker holds
    pc,        \* where each worker is in serve
    req,       \* the url.path() of the request a worker is handling
    contents,  \* the document a worker has read
    lastResp,  \* the last response a worker produced
    doc,       \* a document that is being rendered: events done and to do
    parse      \* the state of the closure markdown_to_document filters with

vars == <<fs, git, rules, order, state, flag, mainpc, log, writer, readers, pc,
          req, contents, lastResp, doc, parse>>
envVars == <<fs, git, rules, order>>
renderVars == <<doc, parse>>
mainVars == <<flag, mainpc, log, writer>>
workerVars == <<readers, pc, req, contents, lastResp>>

\* The canonical content path.
ContentDir == << <<"s", "r", "v">> >>

\* RwLock::read as std implements it: granted when no writer holds the lock
\* and none is waiting for it (a waiting writer holds back new readers,
\* also a reader that already holds a read guard).
CanRead == ~writer /\ mainpc # "lock"

\* RwLock::write: granted when nobody holds the lock.
CanWrite == ~writer /\ \A w \in Workers : readers[w] = 0

\* Mutant of Install: a failed load leaves an empty State behind.
InstallOrClear(live, r) ==
    IF r.kind = "ok" THEN StateOf(r) ELSE [sections |-> <<>>, index |-> <<>>]

\* Mutant of Install: the sections are replaced, the index is left for a
\* later step.
InstallSectionsOnly(live, r) ==
    IF r.kind = "ok" THEN [sections |-> r.sections, index |-> live.index]
    ELSE live

\* Mutant of Install: the loaded entries are added to the live index.
InstallAppend(live, r) ==
    IF r.kind = "ok"
    THEN [sections |-> r.sections, index |-> live.index \o r.index]
    ELSE live

\* The match of the reload loop: a loaded State replaces the live one, an
\* error leaves it.
Install(live, r) == IF r.kind = "ok" THEN StateOf(r) ELSE live

\* Mutant of InIndex: the allow-list lookup lets every path through.
InIndexAny(st, path) == TRUE

\* state_l.index.iter().any(|x| x.path == path)
InIndex(st, path) == \E i \in 1..Len(st.index) : st.index[i].path = path

\* A response: status, kind ("empty", "redirect", "index", "asset",
\* "document", "bytes", or "none" when the request is dropped unanswered),
\* the route and request path it answers and the page sent.
Resp(status, kind, route, path, page) ==
    [status |-> status, kind |-> kind, route |-> route, path |-> path,
     page |-> page]
NoResp == Resp(0, "none", "none", <<>>, <<>>)

\* The files include_dir embeds from styles/ and static-assets/.
STYLES == {StylesCss}
ASSETS == {}

\* The arm of match path a request takes.
Route(path) ==
    IF path = SL THEN "root"
    ELSE IF path = SL \o IndexHtml THEN "index"
    ELSE IF EndsWith(path, SL \o IndexHtml) THEN "section"
    ELSE IF StartsWith(path, SL \o StaticAssets) THEN "assets"
    ELSE IF StartsWith(path, SL \o Styles) THEN "styles"
    ELSE "generic"

\* url.path_segments() with the first segment taken: remainder(), none
\* (<<>>) when the path has one segment only.
Remainder(path) ==
    LET rest == Tail(path)
        cut == {i \in 1..Len(rest) : rest[i] = "/"}
    IN  IF cut = {} THEN <<>>
        ELSE LET first == CHOOSE i \in cut : \A j \in cut : i <= j
             IN  <<SubSeq(rest, first + 1, Len(rest))>>

\* The reserved-prefix arms: an embedded file or 404.
Embedded(dir, path) ==
    IF Remainder(path) # <<>> /\ Remainder(path)[1] \in dir
    THEN Resp(200, "asset", "embedded", <<>>, <<>>)
    ELSE Resp(404, "empty", "embedded", <<>>, <<>>)

\* IndexTemplate::index: the page lists the sections and the entries whose
\* path starts with the section asked for (all entries for /index.html).
IndexPage(st, path) ==
    LET section == IF path = SL \o IndexHtml THEN <<>>
                   ELSE SubSeq(path, 2, Len(path) - Len(IndexHtml) - 1)
    IN  <<[sects |-> st.sections,
           docs  |-> SelectSeq(st.index, LAMBDA x : StartsWith(x.path, section))]>>

\* PathBuf::join: an absolute argument replaces the base.
Join(base, p) ==
    IF StartsWith(p, SL) THEN Components(p) ELSE base \o Components(p)

RECURSIVE ResolveDots(_, _)
\* The file a path names: the system resolves ".." by stepping up.
ResolveDots(comps, acc) ==
    IF comps = <<>> THEN acc
    ELSE IF Head(comps) = <<".", ".">>
         THEN ResolveDots(Tail(comps),
                          IF acc = <<>> THEN acc ELSE SubSeq(acc, 1, Len(acc) - 1))
         ELSE ResolveDots(Tail(comps), Append(acc, Head(comps)))

\* The root-relative place of an absolute path, none (<<>>) when it names
\* a place outside the content root.
Under(abs) ==
    LET real == ResolveDots(abs, <<>>)
    IN  IF PathStartsWith(real, ContentDir)
        THEN <<SubSeq(real, Len(ContentDir) + 1, Len(real))>>
        ELSE <<>>

\* Path::is_file of an absolute path.
IsFileAbs(tree, abs) ==
    IF Under(abs) = <<>> THEN ResolveDots(abs, <<>>) = OutsidePath
    ELSE IsFile(tree, Under(abs)[1])

\* The file an absolute path names.
FileAtAbs(tree, abs) ==
    IF Under(abs) = <<>> THEN OutsideFile ELSE FileAt(tree, Under(abs)[1])

\* The path checks of serve after the allow-list lookup.
PathChecksPass(tree, abs) ==
    /\ PathStartsWith(abs, ContentDir)
    /\ ~StartsWithDot(FileName(abs))
    /\ IsFileAbs(tree, abs)

\* No document is being rendered step by step.
RenderIdle == doc = [done |-> <<>>, todo |-> <<>>] /\ parse = RenderInit

\* main: the first State::load has succeeded.  The server model lists every
\* directory in ascending order; the scans vary the order.
Init ==
    /\ \E w \in Worlds :
          /\ Load(w.fs, "asc", w.git, w.rules).kind = "ok"
          /\ fs = w.fs /\ git = w.git /\ rules = w.rules
          /\ order = "asc"
          /\ state = StateOf(Load(w.fs, "asc", w.git, w.rules))
    /\ RenderIdle
    /\ flag = FALSE
    /\ mainpc = "poll"
    /\ log = "none"
    /\ writer = FALSE
    /\ readers = [w \in Workers |-> 0]
    /\ pc = [w \in Workers |-> "recv"]
    /\ req = [w \in Workers |-> <<>>]
    /\ contents = [w \in Workers |-> <<>>]
    /\ lastResp = NoResp

Running == mainpc # "dead"

\* The content root or the ignore tool changes under the server.
EnvChange ==
    /\ Running
    /\ \E w \in Worlds :
          /\ <<w.fs, w.git, w.rules>> # <<fs, git, rules>>
          /\ fs' = w.fs /\ git' = w.git /\ rules' = w.rules
    /\ UNCHANGED <<order, renderVars, state, mainVars, workerVars>>

\* SIGHUP arrives: signal_hook sets the flag.
Sighup ==
    /\ Running
    /\ ~flag
    /\ flag' = TRUE
    /\ UNCHANGED <<envVars, renderVars, state, mainpc, log, writer, workerVars>>

\* reload_state.swap(false): a set flag starts a reload.
Poll ==
    /\ mainpc = "poll"
    /\ flag
    /\ flag' = FALSE
    /\ mainpc' = "lock"
    /\ UNCHANGED <<envVars, renderVars, state, log, writer, workerVars>>

\* state.write().unwrap() returns.
WriteAcquire ==
    /\ mainpc = "lock"
    /\ CanWrite
    /\ writer' = TRUE
    /\ mainpc' = "load"
    /\ UNCHANGED <<envVars, renderVars, state, flag, log, workerVars>>

\* State::load runs with the write guard held; its result is matched, the
\* guard is dropped.  A panic in load ends the main thread and with it the
\* process.
Reload ==
    /\ mainpc = "load"
    /\ LET r == Load(fs, order, git, rules)
       IN  /\ state' = Install(state, r)
           /\ mainpc' = IF r.kind = "panic" THEN "dead" ELSE "poll"
           /\ log' = CASE r.kind = "ok" -> "reloaded"
                       [] r.kind = "err" -> "failed"
                       [] OTHER -> "panicked"
    /\ writer' = FALSE
    /\ UNCHANGED <<envVars, renderVars, flag, workerVars>>


\* What a request may carry as Host header: none, one that makes the URL
\* unparsable, a good one.
Hosts == {"none", "bad", "ok"}

\* server.recv() returns a request; the arms of serve that take no lock
\* answer it at once, the others go on to the lock.
Recv(w) ==
    /\ Running
    /\ pc[w] = "recv"
    /\ \E host \in Hosts : \E path \in ReqPaths :
          LET route == Route(path)
              locked == host = "ok" /\ route \in {"index", "section", "generic"}
          IN  /\ pc' = [pc EXCEPT ![w] =
                           IF ~locked THEN "recv"
                           ELSE IF route = "generic" THEN "gen_lock"
                           ELSE "idx_lock"]
              /\ req' = [req EXCEPT ![w] = IF locked THEN path ELSE <<>>]
              /\ lastResp' =
                    IF host = "none" THEN Resp(400, "empty", "nohost", <<>>, <<>>)
                    ELSE IF host = "bad" THEN Resp(0, "none", "badurl", <<>>, <<>>)
                    ELSE IF route = "root" THEN Resp(308, "redirect", "root", <<>>, <<>>)
                    ELSE IF route = "assets" THEN Embedded(ASSETS, path)
                    ELSE IF route = "styles" THEN Embedded(STYLES, path)
                    ELSE lastResp
    /\ UNCHANGED <<envVars, renderVars, state, mainVars, readers, contents>>

\* An index page: state.read().unwrap() returns.
IdxAcquire(w) ==
    /\ Running
    /\ pc[w] = "idx_lock"
    /\ CanRead
    /\ readers' = [readers EXCEPT ![w] = 1]
    /\ pc' = [pc EXCEPT ![w] = "idx_respond"]
    /\ UNCHANGED <<envVars, renderVars, state, mainVars, req, contents, lastResp>>

\* An index page is rendered and sent; the guard is dropped after it.
IdxRespond(w) ==
    /\ Running
    /\ pc[w] = "idx_respond"
    /\ lastResp' = Resp(200, "index", "index", req[w], IndexPage(state, req[w]))
    /\ readers' = [readers EXCEPT ![w] = 0]
    /\ pc' = [pc EXCEPT ![w] = "recv"]
    /\ req' = [req EXCEPT ![w] = <<>>]
    /\ UNCHANGED <<envVars, renderVars, state, mainVars, contents>>

\* Mutant of GenLookup: the router goes on to read whatever file the path
\* names, the allow-list and the path checks left out.
GenLookupServeAll(w) ==
    /\ Running
    /\ pc[w] = "gen_lock"
    /\ CanRead
    /\ readers' = [readers EXCEPT ![w] = 1]
    /\ pc' = [pc EXCEPT ![w] = "read"]
    /\ UNCHANGED <<envVars, renderVars, state, mainVars, req, contents, lastResp>>

\* The generic route: state.read().unwrap() returns and the path, its
\* leading '/' stripped, is looked up in the index.
GenLookup(w) ==
    /\ Running
    /\ pc[w] = "gen_lock"
    /\ CanRead
    /\ IF InIndex(state, Tail(req[w]))
       THEN /\ readers' = [readers EXCEPT ![w] = 1]
            /\ pc' = [pc EXCEPT ![w] = "checks"]
            /\ UNCHANGED <<req, lastResp>>
       ELSE /\ lastResp' = Resp(404, "empty", "generic", req[w], <<>>)
            /\ pc' = [pc EXCEPT ![w] = "recv"]
            /\ req' = [req EXCEPT ![w] = <<>>]
            /\ UNCHANGED readers
    /\ UNCHANGED <<envVars, renderVars, state, mainVars, contents>>

\* The path is made absolute and checked against the content root and the
\* file system.
GenChecks(w) ==
    /\ Running
    /\ pc[w] = "checks"
    /\ IF PathChecksPass(fs, Join(ContentDir, Tail(req[w])))
       THEN /\ pc' = [pc EXCEPT ![w] = "read"]
            /\ UNCHANGED <<readers, req, lastResp>>
       ELSE /\ lastResp' = Resp(404, "empty", "generic", req[w], <<>>)
            /\ readers' = [readers EXCEPT ![w] = 0]
            /\ pc' = [pc EXCEPT ![w] = "recv"]
            /\ req' = [req EXCEPT ![w] = <<>>]
    /\ UNCHANGED <<envVars, renderVars, state, mainVars, contents>>

\* std::fs::read: a failure drops the request; a Markdown file goes through
\* String::from_utf8(..).unwrap(), which panics on bytes that are no text
\* and ends the worker; any other file is sent as it is.
GenRead(w) ==
    /\ Running
    /\ pc[w] = "read"
    /\ LET abs == Join(ContentDir, Tail(req[w]))
           md == IsUtf8(Extension(abs)) /\ IsMarkdownExt(Extension(abs))
       IN  IF ~IsFileAbs(fs, abs)
           THEN /\ lastResp' = Resp(0, "none", "generic", req[w], <<>>)
                /\ readers' = [readers EXCEPT ![w] = 0]
                /\ pc' = [pc EXCEPT ![w] = "recv"]
                /\ req' = [req EXCEPT ![w] = <<>>]
                /\ UNCHANGED contents
           ELSE IF ~md
           THEN /\ lastResp' = Resp(200, "bytes", "generic", req[w], <<>>)
                /\ readers' = [readers EXCEPT ![w] = 0]
                /\ pc' = [pc EXCEPT ![w] = "recv"]
                /\ req' = [req EXCEPT ![w] = <<>>]
                /\ UNCHANGED contents
           ELSE IF ~FileAtAbs(fs, abs).utf8
           THEN /\ readers' = [readers EXCEPT ![w] = 0]
                /\ pc' = [pc EXCEPT ![w] = "dead"]
                /\ UNCHANGED <<req, contents, lastResp>>
           ELSE /\ contents' = [contents EXCEPT ![w] = FileAtAbs(fs, abs).doc]
                /\ pc' = [pc EXCEPT ![w] = "render_lock"]
                /\ UNCHANGED <<readers, req, lastResp>>
    /\ UNCHANGED <<envVars, renderVars, state, mainVars>>

\* The second state.read().unwrap() of the Markdown arm returns; the first
\* guard is still held.
RenderAcquire(w) ==
    /\ Running
    /\ pc[w] = "render_lock"
    /\ CanRead
    /\ readers' = [readers EXCEPT ![w] = 2]
    /\ pc' = [pc EXCEPT ![w] = "respond"]
    /\ UNCHANGED <<envVars, renderVars, state, mainVars, req, contents, lastResp>>

\* The document is rendered with the live sections and sent; both guards
\* are dropped at the end of the loop body.
Respond(w) ==
    /\ Running
    /\ pc[w] = "respond"
    /\ lastResp' = Resp(200, "document", "generic", req[w],
                        <<markdown_to_document(state.sections, contents[w]).html>>)
    /\ readers' = [readers EXCEPT ![w] = 0]
    /\ pc' = [pc EXCEPT ![w] = "recv"]
    /\ req' = [req EXCEPT ![w] = <<>>]
    /\ contents' = [contents EXCEPT ![w] = <<>>]
    /\ UNCHANGED <<envVars, renderVars, state, mainVars>>

Worker(w) ==
    \/ Recv(w)
    \/ IdxAcquire(w)
    \/ IdxRespond(w)
    \/ GenLookup(w)
    \/ GenChecks(w)
    \/ GenRead(w)
    \/ RenderAcquire(w)
    \/ Respond(w)

Next ==
    \/ EnvChange
    \/ Sighup
    \/ Poll
    \/ WriteAcquire
    \/ Reload
    \/ \E w \in Workers : Worker(w)

Spec == Init /\ [][Next]_vars

\* What a worker does after it has received a request.
Serving(w) ==
    \/ IdxAcquire(w)
    \/ IdxRespond(w)
    \/ GenLookup(w)
    \/ GenChecks(w)
    \/ GenRead(w)
    \/ RenderAcquire(w)
    \/ Respond(w)

\* The server over a content root that does not change, under fair
\* scheduling: the reload loop polls again after every
\* sleep and goes on when the lock is granted, and a worker that can go on
\* with its request does.  Signals and requests come as they will.
\* State::load returns or panics: the Reload step, told by where the reload
\* loop is alone (no other step takes the loop out of "load").
ScanReturns == mainpc = "load" /\ mainpc' \in {"poll", "dead"}

InitFair ==
    /\ Init
    /\ fs[FileAX] = DocMeta("T", 20240501)
    /\ fs[FileBadMarker] = Absent

NextFair ==
    \/ Sighup
    \/ Poll
    \/ WriteAcquire
    \/ Reload
    \/ \E w \in Workers : Worker(w)

SpecFair ==
    /\ InitFair /\ [][NextFair]_vars
    /\ WF_vars(Poll)
    /\ WF_vars(WriteAcquire)
    /\ WF_mainpc(ScanReturns)
    /\ \A w \in Workers : WF_vars(Serving(w))


\* ------------------------------------------------------------------------
\* The scans: the reload loop alone, over many content trees
\* ------------------------------------------------------------------------

DirB == <<"b">>
YMd == <<"y", ".", "m", "d">>
FileABMarker == DirA \o SL \o DirB \o SL \o SECTION_TOML

\* What each file of the scanned trees may be: two section marker files at
\* different depths under a, a document in a and one in the root.
ScanChoices ==
    (FileAMarker :> {Marker, Absent})
    @@ (FileABMarker :> {Marker, Absent})
    @@ (FileAX :> {DocMeta("T", 20240501), DocNoMeta, Absent})
    @@ (YMd :> {DocMeta("U", 20240501), DocMeta("U", 20240601), Absent})

ScanTrees ==
    {t \in [DOMAIN ScanChoices -> UNION {ScanChoices[f] : f \in DOMAIN ScanChoices}] :
        \A f \in DOMAIN ScanChoices : t[f] \in ScanChoices[f]}

\* The ignore tool and its rules.
GitChoices ==
    { <<"absent", {}>>, <<"repo", {}>>, <<"repo", {DirA}>>,
      <<"repo", {FileAX}>>, <<"norepo", {}>> }

InitScan ==
    /\ \E t \in ScanTrees : \E g \in GitChoices : \E o \in Orders :
          /\ Load(t, o, g[1], g[2]).kind = "ok"
          /\ fs = t /\ git = g[1] /\ rules = g[2]
          /\ order = o
          /\ state = StateOf(Load(t, o, g[1], g[2]))
    /\ RenderIdle
    /\ flag = FALSE
    /\ mainpc = "poll"
    /\ log = "none"
    /\ writer = FALSE
    /\ readers = [w \in Workers |-> 0]
    /\ pc = [w \in Workers |-> "recv"]
    /\ req = [w \in Workers |-> <<>>]
    /\ contents = [w \in Workers |-> <<>>]
    /\ lastResp = NoResp

\* The trees whose only file is the root document m.md: with a meta block
\* that parses, with one that does not, with both (in either order), or
\* without any.
MMd == <<"m", ".", "m", "d">>
MetaChoices ==
    MMd :> {DocMeta("T", 20240501), DocBadMeta, DocGoodBadMeta, DocBadGoodMeta,
            DocNoMeta}

\* The contents each file of the scanned trees may take.
FileChoices == ScanChoices @@ MetaChoices

InitMeta ==
    /\ \E c \in MetaChoices[MMd] : \E g \in GitChoices : \E o \in Orders :
          /\ Load(MMd :> c, o, g[1], g[2]).kind = "ok"
          /\ fs = (MMd :> c) /\ git = g[1] /\ rules = g[2]
          /\ order = o
          /\ state = StateOf(Load(MMd :> c, o, g[1], g[2]))
    /\ RenderIdle
    /\ flag = FALSE
    /\ mainpc = "poll"
    /\ log = "none"
    /\ writer = FALSE
    /\ readers = [w \in Workers |-> 0]
    /\ pc = [w \in Workers |-> "recv"]
    /\ req = [w \in Workers |-> <<>>]
    /\ contents = [w \in Workers |-> <<>>]
    /\ lastResp = NoResp

\* One file of the content tree is written, created or deleted.
EditFile ==
    /\ Running
    /\ \E f \in DOMAIN fs : \E c \in FileChoices[f] :
          /\ c # fs[f]
          /\ fs' = [fs EXCEPT ![f] = c]
    /\ UNCHANGED <<git, rules, order, renderVars, state, mainVars, workerVars>>

\* The ignore tool or its rules change.
EditGit ==
    /\ Running
    /\ \E g \in GitChoices :
          /\ g # <<git, rules>>
          /\ git' = g[1] /\ rules' = g[2]
    /\ UNCHANGED <<fs, order, renderVars, state, mainVars, workerVars>>

\* The file system comes to list its directories in another order.
Relist ==
    /\ Running
    /\ \E o \in Orders : o # order /\ order' = o
    /\ UNCHANGED <<fs, git, rules, renderVars, state, mainVars, workerVars>>

NextScan ==
    \/ EditFile
    \/ EditGit
    \/ Relist
    \/ Sighup
    \/ Poll
    \/ WriteAcquire
    \/ Reload

SpecScan == InitScan /\ [][NextScan]_vars

\* The scans over the trees of MetaChoices.
SpecMeta == InitMeta /\ [][NextScan]_vars


\* ------------------------------------------------------------------------
\* Rendering step by step: the closure of markdown_to_document, one event
\* at a time, over many documents
\* ------------------------------------------------------------------------

RS == <<"r", "s">>
CodePiece(name) == Piece(FALSE, "", 0, name)
TextEv(piece) == Ev("Text", <<>>, <<piece>>)

\* The blocks the rendered documents are made of: a paragraph, a meta block
\* that parses and one that does not, fenced code blocks with no, one and
\* two pieces of text, and an indented code block.
RenderBlocks ==
    { <<Body>>,
      <<Ev("StartFenced", META, <<>>), TextEv(Piece(TRUE, "T", 20240501, "")),
        Ev("EndCodeBlock", <<>>, <<>>)>>,
      <<Ev("StartFenced", META, <<>>), TextEv(CodePiece("garbage")),
        Ev("EndCodeBlock", <<>>, <<>>)>>,
      <<Ev("StartFenced", RS, <<>>), Ev("EndCodeBlock", <<>>, <<>>)>>,
      <<Ev("StartFenced", RS, <<>>), TextEv(CodePiece("c1")),
        Ev("EndCodeBlock", <<>>, <<>>)>>,
      <<Ev("StartFenced", RS, <<>>), TextEv(CodePiece("c1")),
        TextEv(CodePiece("c2")), Ev("EndCodeBlock", <<>>, <<>>)>>,
      <<Ev("StartIndented", <<>>, <<>>), TextEv(CodePiece("c0")),
        Ev("EndCodeBlock", <<>>, <<>>)>> }

MaxBlocks == 2

RECURSIVE DocsUpTo(_)
\* The event streams of the documents of at most n blocks.
DocsUpTo(n) ==
    IF n = 0 THEN {<<>>}
    ELSE DocsUpTo(n - 1)
         \cup {d \o b : d \in DocsUpTo(n - 1), b \in RenderBlocks}

RenderDocs == DocsUpTo(MaxBlocks)

InitRender ==
    /\ \E d \in RenderDocs : doc = [done |-> <<>>, todo |-> d]
    /\ parse = RenderInit
    /\ fs = (FileAX :> Absent) /\ git = "absent" /\ rules = {}
    /\ order = "asc"
    /\ state = StateOf(Load(fs, order, git, rules))
    /\ flag = FALSE
    /\ mainpc = "poll"
    /\ log = "none"
    /\ writer = FALSE
    /\ readers = [w \in Workers |-> 0]
    /\ pc = [w \in Workers |-> "recv"]
    /\ req = [w \in Workers |-> <<>>]
    /\ contents = [w \in Workers |-> <<>>]
    /\ lastResp = NoResp

\* The parser yields the next event and the closure is applied to it.
RenderEvent ==
    /\ doc.todo # <<>>
    /\ parse' = RenderStep(parse, Head(doc.todo))
    /\ doc' = [done |-> Append(doc.done, Head(doc.todo)), todo |-> Tail(doc.todo)]
    /\ UNCHANGED <<envVars, state, mainVars, workerVars>>

NextRender == RenderEvent

SpecRender == InitRender /\ [][NextRender]_vars

\* ------------------------------------------------------------------------
\* Properties
\* ------------------------------------------------------------------------

IndexPathSet(st) == {st.index[i].path : i \in 1..Len(st.index)}

\* Worker w finishes a request in this step.
Answered(w) == pc[w] # "recv" /\ pc'[w] = "recv"

\* C1 (allow-list): a step in which a worker answers a generic-route
\* request with a rendered document or with file bytes is taken while the
\* request path, its leading '/' stripped, is the path of an entry of the
\* live index; and the live State is not replaced while a worker holds a
\* read guard, so that index is the one the lookup saw.
C1_AllowList ==
    [][/\ \A w \in Workers :
             (/\ Answered(w)
              /\ lastResp'.route = "generic"
              /\ lastResp'.kind \in {"document", "bytes"})
             => Tail(lastResp'.path) \in IndexPathSet(state)
       /\ (\E w \in Workers : readers[w] > 0) => state' = state]_vars

C1_Witness ==
    /\ lastResp.route = "generic"
    /\ lastResp.kind = "document"
    /\ lastResp.path = SL \o FileAX

\* C2 (reload failure safety): a step of the reload loop in which
\* State::load returned an error leaves the live State as it was; the live
\* State always has its root section, so there is always a snapshot.
C2_ReloadFailureKeepsState ==
    [][(mainpc = "load" /\ log' = "failed") => state' = state]_vars

C2_Witness ==
    /\ log = "failed"
    /\ mainpc = "poll"
    /\ FileAX \in IndexPathSet(state)
    /\ lastResp.kind = "document"

\* C3 (atomic replacement): the live State starts as the result of one
\* State::load and is only ever replaced, whole and under the write guard,
\* by the result of one State::load of the content root; and every page a worker sends shows the
\* sections and the index entries of the live State of that moment, never
\* sections of one load with entries of another.
C3_AtomicReplacement ==
    /\ Load(fs, order, git, rules).kind = "ok"
    /\ state = StateOf(Load(fs, order, git, rules))
    /\ [][/\ state' # state =>
               /\ writer /\ mainpc = "load"
               /\ Load(fs, order, git, rules).kind = "ok"
               /\ state' = StateOf(Load(fs, order, git, rules))
          /\ \A w \in Workers :
               (Answered(w) /\ lastResp'.kind = "document") =>
                   /\ state' = state
                   /\ lastResp'.page[1].sects = state.sections
                   /\ Tail(lastResp'.path) \in IndexPathSet(state)
          /\ \A w \in Workers :
               (Answered(w) /\ lastResp'.kind = "index") =>
                   /\ state' = state
                   /\ lastResp'.page = IndexPage(state, lastResp'.path)]_vars

C3_Witness ==
    /\ log = "reloaded"
    /\ lastResp.kind = "index"
    /\ lastResp.page = IndexPage(state, lastResp.path)
    /\ \E w \in Workers : readers[w] > 0

\* C4 (as the specification states it; the code violates it): the write guard is
\* not held while State::load runs, and a worker asking for a read guard
\* during a scan gets it.
C4_NoScanUnderWriteLock ==
    /\ mainpc = "load" => ~writer
    /\ \A w \in Workers :
          (mainpc = "load" /\ pc[w] \in {"idx_lock", "gen_lock", "render_lock"})
          => CanRead

\* A thread is blocked when it asks for the lock and cannot get it.
MainBlocked == mainpc = "lock" /\ ~CanWrite
WorkerBlocked(w) ==
    pc[w] \in {"idx_lock", "gen_lock", "render_lock"} /\ ~CanRead

\* C5 (as the specification states it; the code violates it): nobody waits for
\* the lock forever: whenever a thread is blocked on the lock, the lock can
\* still move: the writer holds it (and drops it after the scan), or a
\* reader that holds it is not itself blocked, or the waiting writer can
\* take it.
C5_NoLockDeadlock ==
    (MainBlocked \/ \E w \in Workers : WorkerBlocked(w))
    => \/ writer
       \/ mainpc = "lock" /\ CanWrite
       \/ \E w \in Workers : readers[w] > 0 /\ ~WorkerBlocked(w)

\* C6 (as the specification states it; the code violates it): a worker holds no
\* read guard when it reads the requested file and when it sends a response.
C6_NoReadLockAcrossIO ==
    \A w \in Workers :
        pc[w] \in {"read", "respond", "idx_respond"} => readers[w] = 0

\* C7 (as the specification states it; the code violates it): no worker thread
\* ends and the process keeps running.
C7_NothingTerminates ==
    /\ mainpc # "dead"
    /\ \A w \in Workers : pc[w] # "dead"

\* The file at the request path is a Markdown document without metadata
\* that the live index does not list.
UnindexedPlainDocument(path) ==
    /\ Tail(path) \in DOMAIN fs
    /\ fs[Tail(path)].kind = "file"
    /\ fs[Tail(path)].utf8
    /\ IsMarkdownExt(Extension(Components(path)))
    /\ ~markdown_to_document(<<>>, fs[Tail(path)].doc).meta.some
    /\ Tail(path) \notin IndexPathSet(state)

\* C8 as the specification states it (the code violates it): a generic-route request
\* for a Markdown file that has no meta block and is not in the index is
\* answered with the rendered document, under the default metadata.
C8_UnindexedStillRendered ==
    [][\A w \in Workers :
          (Answered(w) /\ lastResp'.route = "generic"
              /\ UnindexedPlainDocument(lastResp'.path))
          => (/\ lastResp'.kind = "document"
              /\ lastResp'.page[1].meta = DefaultMeta)]_vars

\* C8 amended: such a request is answered 404 with no body; a document is
\* rendered under the default metadata exactly when the file read for an
\* indexed path yields no metadata at request time.
C8_UnindexedIsNotFound ==
    [][\A w \in Workers :
          /\ (Answered(w) /\ lastResp'.route = "generic"
                  /\ UnindexedPlainDocument(lastResp'.path))
             => (lastResp'.status = 404 /\ lastResp'.kind = "empty")
          /\ (Answered(w) /\ lastResp'.kind = "document")
             => /\ Tail(lastResp'.path) \in IndexPathSet(state)
                /\ (lastResp'.page[1].meta = DefaultMeta)
                   <=> ~markdown_to_document(<<>>, contents[w]).meta.some]_vars

C8_Witness ==
    /\ lastResp.route = "generic"
    /\ lastResp.status = 404
    /\ lastResp.path = SL \o FileAX
    /\ UnindexedPlainDocument(lastResp.path)

\* C9 (as the specification states it; the code violates it): the sections of
\* the live State are strictly ascending, so sorted and free of duplicates.
C9_SectionsStrictlyAscending ==
    \A i \in 1..(Len(state.sections) - 1) :
        StrLess(state.sections[i], state.sections[i + 1])

\* C10: the sections of the live State contain the empty string, the root
\* section, in the first State and after every reload, failed or not,
\* whatever the ignore filter removed.
C10_RootSectionPresent == \E i \in 1..Len(state.sections) : state.sections[i] = <<>>

C10_Witness ==
    /\ log = "reloaded"
    /\ git = "repo" /\ rules = {DirA}
    /\ fs[FileAMarker] = Marker
    /\ fs[FileAX] = DocMeta("T", 20240501)
    /\ state = StateOf(Load(fs, "asc", git, rules))
    /\ state.sections = << <<>> >>



\* The reload loop installs a loaded State in this step.
Reloaded == mainpc = "load" /\ mainpc' = "poll" /\ log' = "reloaded"

\* The place of the file with root-relative path p in a walk.
WalkPos(files, p) == CHOOSE i \in 1..Len(files) : JoinSlash(files[i]) = p

\* The index is ordered by date, latest first.
DateDescending(index) ==
    \A i \in 1..(Len(index) - 1) : index[i].meta.date >= index[i + 1].meta.date

\* Entries of equal date stand in the order the walk met their files.
TiesInWalkOrder(index, files) ==
    \A i, j \in 1..Len(index) :
        (i < j /\ index[i].meta.date = index[j].meta.date)
        => WalkPos(files, index[i].path) < WalkPos(files, index[j].path)

\* C11 (index order): the snapshot the server starts with and every snapshot
\* a reload installs has its index ordered by date descending, and entries
\* of equal date appear in the order in which the walk of that scan met
\* their files.
C11_IndexDateDescending ==
    /\ DateDescending(state.index)
    /\ TiesInWalkOrder(state.index, walk(fs, order))
    /\ [][Reloaded
           => /\ DateDescending(state'.index)
              /\ TiesInWalkOrder(state'.index, walk(fs, order))]_vars

C11_Witness ==
    /\ log = "reloaded"
    /\ Len(state.index) = 2
    /\ state.index[1].meta.date = state.index[2].meta.date
    /\ state.index[1].path = YMd
    /\ fs[YMd] = DocMeta("U", 20240501)

\* The entries of an index, their order left aside.
EntrySet(index) == {index[i] : i \in 1..Len(index)}

HasHiddenSegment(p) ==
    \E i \in 1..Len(Components(p)) : StartsWithDot(Components(p)[i])

\* No section name and no index path of a State has a hidden segment.
NothingHidden(st) ==
    /\ \A i \in 1..Len(st.sections) : ~HasHiddenSegment(st.sections[i])
    /\ \A i \in 1..Len(st.index) : ~HasHiddenSegment(st.index[i].path)

\* C13 (hidden paths): the snapshot the server starts with and every
\* snapshot after it has no section name and no index path with a segment
\* that begins with '.', also when a section marker file lies directly in the
\* content root and a document with metadata lies in a hidden directory;
\* and no generic-route request whose path has such a segment is answered
\* with a document or with file bytes.
C13_HiddenNeverIndexedOrServed ==
    /\ NothingHidden(state)
    /\ [][/\ NothingHidden(state')
           /\ \A w \in Workers :
                (/\ Answered(w)
                 /\ lastResp'.route = "generic"
                 /\ HasHiddenSegment(lastResp'.path))
                => lastResp'.kind \notin {"document", "bytes"}]_vars

C13_Witness ==
    /\ log = "reloaded"
    /\ fs[FileHZ] = DocMeta("H", 20240501)
    /\ fs[SECTION_TOML] = Marker
    /\ Len(state.index) = 1
    /\ lastResp.route = "generic"
    /\ lastResp.path = SL \o FileHZ
    /\ lastResp.status = 404


\* The Markdown documents of a tree that are text.
Documents(tree) ==
    {f \in Present(tree) :
        tree[f].utf8 /\ IsMarkdownExt(Extension(Components(f)))}

\* The places where a meta block with its text starts in a document.
MetaBlocks(d) ==
    {i \in 1..(Len(d) - 1) :
        d[i].t = "StartFenced" /\ d[i].lang = META /\ d[i + 1].t = "Text"}

\* The text of the block is TOML with a title and a date.
BlockParses(d, i) ==
    LET p == d[i + 1].text[1] IN p.toml /\ p.title # "" /\ p.date # 0
HasFailingMetaBlock(d) == \E i \in MetaBlocks(d) : ~BlockParses(d, i)
NoMetaBlockParses(d) == \A i \in MetaBlocks(d) : ~BlockParses(d, i)

\* The HTML markdown_to_document returns has the body of the document.
BodyRendered(d) ==
    LET out == markdown_to_document(<<>>, d).html.body
    IN  \E i \in 1..Len(out) : out[i] = Body

\* C15 as the specification states it (the code violates it): when a scan
\* has run, every Markdown document with a meta block whose text fails to
\* parse as metadata renders with its body, yields no metadata and has no
\* IndexEntry.
C15_FailingMetaBlockNeverIndexed ==
    [][Reloaded =>
          \A f \in Documents(fs) :
              HasFailingMetaBlock(fs[f].doc)
              => /\ BodyRendered(fs[f].doc)
                 /\ ~markdown_to_document(<<>>, fs[f].doc).meta.some
                 /\ f \notin IndexPathSet(state')]_vars

\* C15 amended: that holds of every Markdown document with a meta block
\* that fails to parse and none that parses; when another meta block of the
\* document parses, markdown_to_document returns the body and that block's
\* metadata.
C15_NoParsedMetaBlockNeverIndexed ==
    [][Reloaded =>
          \A f \in Documents(fs) :
              HasFailingMetaBlock(fs[f].doc)
              => /\ BodyRendered(fs[f].doc)
                 /\ IF NoMetaBlockParses(fs[f].doc)
                    THEN /\ ~markdown_to_document(<<>>, fs[f].doc).meta.some
                         /\ f \notin IndexPathSet(state')
                    ELSE markdown_to_document(<<>>, fs[f].doc).meta
                             = SomeMeta("T", 20240501)]_vars

C15_Witness ==
    /\ log = "reloaded"
    /\ mainpc = "poll"
    /\ fs[MMd] = DocBadMeta
    /\ state.index = <<>>

\* C16 (as the specification states it; the code violates it): a request
\* without a Host header and a request whose URL does not parse are answered
\* with status 400; a generic-route request that the index lookup or the
\* path checks turn down is answered with status 404.
C16_BadRequestsAnswered ==
    [][/\ lastResp'.route \in {"nohost", "badurl"} => lastResp'.status = 400
       /\ \A w \in Workers :
             (pc[w] \in {"gen_lock", "checks"} /\ pc'[w] = "recv")
             => lastResp'.status = 404]_vars

\* The path of a request, joined to the content root, names a place outside
\* the content root.
OutsideRoot(path) == Under(Join(ContentDir, Tail(path))) = <<>>

\* C17 (traversal): a generic-route request whose path, resolved against
\* the content root, names a place outside the content root is answered 404
\* with no body.
C17_TraversalRejected ==
    [][\A w \in Workers :
          (/\ Answered(w)
           /\ lastResp'.route = "generic"
           /\ OutsideRoot(lastResp'.path))
          => (lastResp'.status = 404 /\ lastResp'.kind = "empty")]_vars

C17_Witness ==
    /\ lastResp.route = "generic"
    /\ lastResp.path = SL \o SL \o JoinSlash(OutsidePath)
    /\ OutsideRoot(lastResp.path)
    /\ lastResp.status = 404
    /\ Len(state.index) = 1

\* C18 (as the specification states it; the code violates it): a scan of
\* the reload loop ends with a snapshot installed or with an error logged
\* and the live State unchanged; either way the write guard is dropped and
\* the loop polls again.
C18_ScanFailureIsError ==
    [][(mainpc = "load" /\ mainpc' # "load")
       => /\ mainpc' = "poll"
          /\ ~writer'
          /\ log' \in {"reloaded", "failed"}
          /\ log' = "failed" => state' = state]_vars


\* No section name and no index path of a State is ignored by the rules.
NothingIgnored(st, rs) ==
    /\ \A i \in 1..Len(st.sections) :
          st.sections[i] # <<>> => ~IsIgnored(rs, st.sections[i])
    /\ \A i \in 1..Len(st.index) : ~IsIgnored(rs, st.index[i].path)

\* Every document outside hidden places that yields metadata is indexed.
NothingRemoved(st, tree) ==
    \A f \in Documents(tree) :
        (~HasHiddenSegment(f) /\ markdown_to_document(<<>>, tree[f].doc).meta.some)
        => f \in IndexPathSet(st)

\* C14 (ignore filter): a snapshot loaded with the ignore tool on the search
\* path has no section name and no index path the tool reports as ignored;
\* a snapshot loaded without the tool has lost nothing and the filter did not
\* run; a scan runs the filter at most twice.
C14_IgnoredNeverInSnapshot ==
    /\ git # "absent" => NothingIgnored(state, rules)
    /\ git = "absent" => NothingRemoved(state, fs)
    /\ [][Reloaded =>
             /\ git # "absent" => NothingIgnored(state', rules)
             /\ git = "absent" =>
                   /\ NothingRemoved(state', fs)
                   /\ FilterCalls(fs, order, git, rules) = 0
             /\ FilterCalls(fs, order, git, rules) <= 2]_vars

C14_Witness ==
    /\ log = "reloaded"
    /\ mainpc = "poll"
    /\ git = "repo"
    /\ rules = {FileAX}
    /\ fs[FileAX] = DocMeta("T", 20240501)
    /\ IndexPaths(state.index) = <<YMd>>
    /\ FilterCalls(fs, order, git, rules) = 1

\* A scan of the reload loop ends in this step.
ScanEnds == mainpc = "load" /\ mainpc' # "load"

\* The path lists a scan hands to filter_ignored.
FilterInputs(tree, o) ==
    LET w == Walked(tree, o)
    IN  IF w.kind # "ok" THEN {} ELSE {w.sections, w.paths} \ {<<>>}

\* C19 as the specification states it (the code violates it): whenever a
\* scan runs the ignore filter and the subprocess exits with a status other
\* than zero, filter_ignored returns an error and the scan is aborted.
C19_EveryNonZeroExitIsError ==
    [][(ScanEnds /\ git # "absent") =>
          \A paths \in FilterInputs(fs, order) :
              GitCheckIgnore(git, rules, paths).code # 0
              => /\ ~filter_ignored(git, rules, paths).ok
                 /\ log' = "failed"]_vars

\* C19 amended: filter_ignored returns an error, and the scan is aborted,
\* when the subprocess exits with status 128; for status zero and for every
\* other status it returns the lines of standard output as the ignored
\* paths, none for the status 1 of a run that found no path ignored.
C19_OnlyFatalExitIsError ==
    [][(ScanEnds /\ git # "absent") =>
          \A paths \in FilterInputs(fs, order) :
              LET out == GitCheckIgnore(git, rules, paths)
                  res == filter_ignored(git, rules, paths)
              IN  IF out.code = NotARepository
                  THEN ~res.ok /\ log' = "failed" /\ state' = state
                  ELSE /\ res.ok
                       /\ res.paths = out.stdout
                       /\ out.code = 1 => res.paths = <<>>
                       /\ log' = "reloaded"]_vars

C19_Witness ==
    /\ log = "reloaded"
    /\ mainpc = "poll"
    /\ git = "repo"
    /\ rules = {}
    /\ Len(state.index) = 2
    /\ GitCheckIgnore(git, rules, IndexPaths(state.index)).code = 1


\* The places of the events of a kind in an event stream.
Places(evs, t) == {i \in 1..Len(evs) : evs[i].t = t}

\* The stream ends inside a fenced code block: its last fence start has no
\* block end after it.
InFenced(evs) ==
    \E i \in Places(evs, "StartFenced") :
        \A j \in Places(evs, "EndCodeBlock") : j < i

\* The end of the fenced block that starts at i (0 when it has not ended).
BlockEnd(evs, i) ==
    LET ends == {j \in Places(evs, "EndCodeBlock") : j > i}
    IN  IF ends = {} THEN 0 ELSE CHOOSE j \in ends : \A k \in ends : j <= k

RECURSIVE TextBetween(_, _, _)
\* The text of the events after place i and before place j.
TextBetween(evs, i, j) ==
    IF i + 1 >= j THEN <<>>
    ELSE evs[i + 1].text \o TextBetween(evs, i + 1, j)

\* The text of the fenced block that starts at i, as far as the stream goes.
BlockText(evs, i) ==
    TextBetween(evs, i,
                IF BlockEnd(evs, i) = 0 THEN Len(evs) + 1 ELSE BlockEnd(evs, i))

\* The fenced blocks of a stream that have ended, meta blocks or the others.
EndedBlocks(evs, meta) ==
    {i \in Places(evs, "StartFenced") :
        (evs[i].lang = META) = meta /\ BlockEnd(evs, i) # 0}

\* The pieces of text of the meta blocks of a stream.
MetaPieces(evs) ==
    UNION {{BlockText(evs, i)[k] : k \in 1..Len(BlockText(evs, i))} :
             i \in {j \in Places(evs, "StartFenced") : evs[j].lang = META}}

\* The highlighted fragments among the events let through, in order.
Fragments(out) == SelectSeq(out, LAMBDA e : e.t = "Html")

\* The n-th (by place) of a set of places.
RECURSIVE Nth(_, _)
Nth(places, n) ==
    LET m == CHOOSE i \in places : \A j \in places : i <= j
    IN  IF n = 1 THEN m ELSE Nth(places \ {m}, n - 1)

\* C20 (render state machine): after every event of every document the
\* parse state is Normal exactly when the stream is outside fenced code
\* blocks (so it is back to Normal at every block end); the accumulator is
\* empty whenever the state is Normal and holds the text of the open block
\* otherwise (nothing for a meta block); the fragments sent are, in order,
\* the texts of the highlighted blocks that have ended, each its own; and no
\* text of a meta block is among the events let through, in a fragment or
\* in the accumulator.
C20_RenderStateMachine ==
    LET evs == doc.done
        hl == EndedBlocks(evs, FALSE)
        fr == Fragments(parse.out)
        open == CHOOSE i \in Places(evs, "StartFenced") : BlockEnd(evs, i) = 0
    IN  /\ (parse.st = "Normal") <=> ~InFenced(evs)
        /\ parse.st = "Normal" => parse.code = <<>>
        /\ parse.st = "Highlight" => parse.code = BlockText(evs, open)
        /\ parse.st = "Meta" => parse.code = <<>>
        /\ Len(fr) = Cardinality(hl)
        /\ \A n \in 1..Len(fr) : fr[n].text = BlockText(evs, Nth(hl, n))
        /\ \A n \in 1..Len(parse.out) :
              \A k \in 1..Len(parse.out[n].text) :
                  parse.out[n].text[k] \notin MetaPieces(evs)
        /\ \A k \in 1..Len(parse.code) : parse.code[k] \notin MetaPieces(evs)

C20_Witness ==
    /\ doc.todo = <<>>
    /\ parse.st = "Normal"
    /\ Len(Fragments(parse.out)) = 2
    /\ Fragments(parse.out)[1].text = <<CodePiece("c1"), CodePiece("c2")>>
    /\ Fragments(parse.out)[2].text = <<CodePiece("c1")>>


\* C21 (as the specification states it; the code violates it): every section
\* of the live State other than the root section has an entry of the index
\* of that State whose section is it, whatever the ignore filter removed.
C21_EverySectionHasEntry ==
    \A i \in 1..Len(state.sections) :
        state.sections[i] # <<>> =>
            \E j \in 1..Len(state.index) :
                state.index[j].section = state.sections[i]


\* C22 (as the specification states it; the code violates it): no reload
\* request is lost.  Only the poll of the reload loop clears the flag, and it
\* does so before the scan starts; a set flag is eventually cleared, the
\* reload loop that has cleared it eventually gets the write lock and starts
\* its scan, and a scan that has started eventually ends (its State
\* installed if it succeeded) - each as long as the process lives.
C22_NoReloadLost ==
    /\ [][(flag /\ ~flag') => (mainpc = "poll" /\ mainpc' = "lock")]_vars
    /\ [][(mainpc = "load" /\ mainpc' # "load") => log' = "reloaded"]_vars
    /\ (flag /\ Running) ~> (~flag \/ ~Running)
    /\ (mainpc = "lock") ~> (mainpc = "load")
    /\ (mainpc = "load") ~> (mainpc # "load")

=============================================================================
